---- MODULE Spec2Model ----
(***************************************************************************)
(* bwell-logkit: record normalization (_clean_records), scene segmentation *)
(* (SceneManager) and the LogSession / SceneView composition built on them.*)
(*                                                                         *)
(* Values.  A record is a Python dict; the model keeps the three keys the  *)
(* core reads: "myType", "sceneName" and "timestamp".  A key may be        *)
(* absent.  The value under "myType" is either a str or the enum member    *)
(* RecordTypes.SCENE_ENTRY (LogRecord = dict[str, Any]); the two never     *)
(* compare equal in Python, and json.dumps(default=str) writes the member  *)
(* as the text "RecordTypes.SCENE_ENTRY".  Game times are integers         *)
(* (whole seconds); NaN and null game times are outside the model, and so  *)
(* is the "msSinceEpoch" key.  hash(str) is taken to be collision free.    *)
(***************************************************************************)
EXTENDS Integers, Sequences, FiniteSets, TLC

VARIABLES
    raw,        \* SpecClean: the list handed to _clean_records
    cleaned,    \* SpecClean: what _clean_records returned for it
    recleaned,  \* SpecClean: what _clean_records returned for `cleaned`
    pc,         \* SpecClean: "start", "cleaned", "recleaned"
    sessions,   \* heap of LogSession objects, in creation order
    managers,   \* heap of SceneManager objects: managers[k] is the one session k built
    dicts,      \* heap of metadata dicts, in creation order
    views,      \* heap of SceneView objects, in creation order
    reader,     \* SpecReader: the locals of one read_records call
    loader,     \* SpecLoader: the locals of one load_all_logs call
    caller      \* SpecCaller: the lists and dicts the calling code holds

vars == <<raw, cleaned, recleaned, pc, sessions, managers, dicts, views, reader, loader, caller>>

(***************************** bounds **************************************)
MaxLen == 3        \* longest list handed to a constructor
MaxSessions == 3   \* LogSession objects alive in one run
MaxViews == 3      \* SceneView objects alive in one run
MaxHeld == 2       \* lists and dicts a caller obtains from a session in one run

(************************** types.py ***************************************)
StrVal(s) == [kind |-> "str", val |-> s]
Absent == [kind |-> "absent", val |-> ""]

\* RecordTypes.SCENE_ENTRY: the enum member, whose .value is the text.
SCENE_ENTRY == [kind |-> "enum", val |-> "SceneEntryRecord"]
ABSOLUTE_ACTIVITY == [kind |-> "enum", val |-> "AbsoluteActivityRecord"]

\* str(member) of a plain Enum: "ClassName.MEMBER".
EnumStr(e) ==
    IF e = SCENE_ENTRY THEN "RecordTypes.SCENE_ENTRY"
    ELSE "RecordTypes.ABSOLUTE_ACTIVITY"

Rec(tag, name, hasTime, t) ==
    [myType |-> tag, sceneName |-> name, hasTime |-> hasTime, timestamp |-> t]

\* r.get(RecordFields.GAME_TIME_SECS, default)
GetTime(r, default) == IF r.hasTime THEN r.timestamp ELSE default

\* r.get(RecordFields.SceneEntry.SCENE_NAME): None when the key is absent.
GetName(r) == r.sceneName

(************************ the records of a run *****************************)
Times == {-1, 0, 1}

Timed(tag, name, ts) == {Rec(tag, name, TRUE, t) : t \in ts}
Untimed(tag, name) == Rec(tag, name, FALSE, 0)

\* The records a caller puts in a list: scene entries tagged with the enum
\* member (named "A" or "B", with an empty name, with no name), a scene entry
\* and an activity record tagged with plain text as a parsed file has them,
\* and a record whose tag is the text str() gives for the enum member.
Universe ==
    Timed(SCENE_ENTRY, StrVal("A"), Times) \cup {Untimed(SCENE_ENTRY, StrVal("A"))}
    \cup Timed(SCENE_ENTRY, StrVal("B"), {1}) \cup {Untimed(SCENE_ENTRY, StrVal("B"))}
    \cup Timed(SCENE_ENTRY, StrVal(""), {0})
    \cup Timed(SCENE_ENTRY, Absent, {1})
    \cup Timed(StrVal("SceneEntryRecord"), StrVal("A"), {1})
    \cup Timed(StrVal("RecordTypes.SCENE_ENTRY"), StrVal("A"), {1})
    \cup Timed(StrVal("AbsoluteActivityRecord"), Absent, Times)
    \cup {Untimed(StrVal("AbsoluteActivityRecord"), Absent)}

RECURSIVE SeqsUpTo(_, _)
SeqsUpTo(S, n) ==
    IF n = 0 THEN {<<>>}
    ELSE LET shorter == SeqsUpTo(S, n - 1)
         IN  shorter \cup {Append(q, x) : q \in {p \in shorter : Len(p) = n - 1}, x \in S}

RawInputs == SeqsUpTo(Universe, MaxLen)

(************************** logs.py: _clean_records ************************)
\* json.dumps(record, sort_keys=True, default=str): the keys present, in key
\* order, each with the JSON text of its value.  A str is written as itself,
\* the enum member through default=str, an absent key not at all.
JsonValue(v) == IF v.kind = "enum" THEN EnumStr(v) ELSE v.val

json_dumps(r) ==
    [myType    |-> JsonValue(r.myType),
     sceneName |-> IF r.sceneName.kind = "absent" THEN <<>> ELSE <<JsonValue(r.sceneName)>>,
     timestamp |-> IF r.hasTime THEN <<r.timestamp>> ELSE <<>>]

\* A hash of the game time alone.
record_hash_time_only(r) == <<r.hasTime, r.timestamp>>

\* hash(record_json)
record_hash(r) == json_dumps(r)

\* The loop of lines 25-31: keep a record unless its hash was seen.
RECURSIVE dedup(_, _, _)
dedup(records, seen, kept) ==
    IF records = <<>> THEN kept
    ELSE LET record == Head(records)
             h == record_hash(record)
         IN  IF h \notin seen
             THEN dedup(Tail(records), seen \cup {h}, Append(kept, record))
             ELSE dedup(Tail(records), seen, kept)

\* A key that puts the records without a game time last.
sort_key_missing_last(r) == GetTime(r, 100)

\* The sort key of line 34.
sort_key(r) == GetTime(r, 0)

\* An unstable sort: a record goes before the records with its own key.
RECURSIVE insert_before_equal(_, _)
insert_before_equal(sorted, r) ==
    IF sorted = <<>> THEN <<r>>
    ELSE IF sort_key(sorted[Len(sorted)]) < sort_key(r) THEN Append(sorted, r)
    ELSE Append(insert_before_equal(SubSeq(sorted, 1, Len(sorted) - 1), r),
                sorted[Len(sorted)])

\* list.sort is stable: a record goes after every record whose key is <= its own.
RECURSIVE insert_sorted(_, _)
insert_sorted(sorted, r) ==
    IF sorted = <<>> THEN <<r>>
    ELSE IF sort_key(sorted[Len(sorted)]) <= sort_key(r) THEN Append(sorted, r)
    ELSE Append(insert_sorted(SubSeq(sorted, 1, Len(sorted) - 1), r), sorted[Len(sorted)])

RECURSIVE list_sort(_, _)
list_sort(records, acc) ==
    IF records = <<>> THEN acc
    ELSE list_sort(Tail(records), insert_sorted(acc, Head(records)))

\* _clean_records without the sort of line 34.
_clean_records_unsorted(records) == dedup(records, {}, <<>>)

_clean_records(records) == list_sort(dedup(records, {}, <<>>), <<>>)

(************************* SpecClean: the Normalizer ***********************)
NoHeap == <<>>

InitClean ==
    /\ raw \in RawInputs
    /\ cleaned = <<>>
    /\ recleaned = <<>>
    /\ pc = "start"
    /\ sessions = NoHeap /\ managers = NoHeap /\ dicts = NoHeap /\ views = NoHeap
    /\ reader = NoHeap /\ loader = NoHeap /\ caller = NoHeap

Clean ==
    /\ pc = "start"
    /\ cleaned' = _clean_records(raw)
    /\ pc' = "cleaned"
    /\ UNCHANGED <<raw, recleaned, sessions, managers, dicts, views, reader, loader, caller>>

\* LogSession.__init__ of a derived session normalizes the cleaned list again.
Reclean ==
    /\ pc = "cleaned"
    /\ recleaned' = _clean_records(cleaned)
    /\ pc' = "recleaned"
    /\ UNCHANGED <<raw, cleaned, sessions, managers, dicts, views, reader, loader, caller>>

NextClean == Clean \/ Reclean

SpecClean == InitClean /\ [][NextClean]_vars

(************************** scene.py: SceneManager *************************)
SceneInfo(name, instance, start_gt, end_gt) ==
    [name |-> name, instance |-> instance,
     start_game_time_secs |-> start_gt, end_game_time_secs |-> end_gt]

\* SceneInfo.duration_secs
duration_secs(info) == info.end_game_time_secs - info.start_game_time_secs

\* Line 21: r.get(RecordFields.RECORD_TYPE) == RecordTypes.SCENE_ENTRY.  The
\* right-hand side is the enum member, not its .value.
is_scene_entry(r) == r.myType = SCENE_ENTRY

\* Lines 18-22.
scene_entries_of(records) == SelectSeq(records, is_scene_entry)

SetMax(S) == CHOOSE x \in S : \A y \in S : y <= x

\* max(gt_timestamps, default=start_gt), lines 45-51.
max_game_time(records, start_gt) ==
    IF records = <<>> THEN start_gt
    ELSE SetMax({GetTime(records[k], 0) : k \in DOMAIN records})

\* Lines 38-54: the end of the scene opened by scene_entries[i].
end_game_time(records, scene_entries, i, start_gt) ==
    IF i + 1 <= Len(scene_entries)
    THEN GetTime(scene_entries[i + 1], start_gt)
    ELSE max_game_time(records, start_gt)

\* Line 32: `if not scene_name`: None and "" are both falsy.
name_is_falsy(scene_name) == scene_name.kind = "absent" \/ scene_name.val = ""

\* A dict[str, list[SceneInfo]]: its keys in insertion order and, per key,
\* its list.
EmptyScenes == [keys |-> <<>>, lists |-> <<>>]

HasKey(scenes, name) == \E k \in DOMAIN scenes.keys : scenes.keys[k] = name

KeyIndex(scenes, name) == CHOOSE k \in DOMAIN scenes.keys : scenes.keys[k] = name

\* scenes[name], a defaultdict(list) lookup that does not insert.
ListOf(scenes, name) ==
    IF HasKey(scenes, name) THEN scenes.lists[KeyIndex(scenes, name)] ELSE <<>>

\* scenes[scene_name].append(info)
AppendScene(scenes, name, info) ==
    IF HasKey(scenes, name)
    THEN [scenes EXCEPT !.lists[KeyIndex(scenes, name)] = Append(@, info)]
    ELSE [keys |-> Append(scenes.keys, name), lists |-> Append(scenes.lists, <<info>>)]

\* The loop of lines 29-67 from entry i on.
RECURSIVE build_from(_, _, _, _)
build_from(records, scene_entries, i, scenes) ==
    IF i > Len(scene_entries) THEN scenes
    ELSE LET entry == scene_entries[i]
             scene_name == GetName(entry)
         IN  IF name_is_falsy(scene_name)
             THEN build_from(records, scene_entries, i + 1, scenes)
             ELSE LET start_gt == GetTime(entry, 0)
                      end_gt == end_game_time(records, scene_entries, i, start_gt)
                      instance_idx == Len(ListOf(scenes, scene_name.val))
                  IN  build_from(records, scene_entries, i + 1,
                          AppendScene(scenes, scene_name.val,
                              SceneInfo(scene_name.val, instance_idx, start_gt, end_gt)))

_build_scene_index(records) ==
    build_from(records, scene_entries_of(records), 1, EmptyScenes)

\* SceneManager.__init__
SceneManager(records) ==
    [built |-> TRUE, records |-> records, scenes |-> _build_scene_index(records)]

\* The slot of a session that has built no SceneManager.
NoManager == [built |-> FALSE, records |-> <<>>, scenes |-> EmptyScenes]

list_scenes(m) == m.scenes.keys

\* Line 76: no lower bound on instance.
has_scene(m, scene_name, instance) ==
    HasKey(m.scenes, scene_name) /\ instance < Len(ListOf(m.scenes, scene_name))

get_scene_count(m, scene_name) == Len(ListOf(m.scenes, scene_name))

\* What a call gives back: a value, or the exception it raised.
NoInfo == SceneInfo("", 0, 0, 0)

Returned(info, records) ==
    [kind |-> "ok", info |-> info, records |-> records,
     scene_name |-> "", instance |-> 0, available_scenes |-> <<>>]

SceneNotFoundError(scene_name, instance, available_scenes) ==
    [kind |-> "SceneNotFoundError", info |-> NoInfo, records |-> <<>>,
     scene_name |-> scene_name, instance |-> instance,
     available_scenes |-> available_scenes]

IndexError ==
    [kind |-> "IndexError", info |-> NoInfo, records |-> <<>>,
     scene_name |-> "", instance |-> 0, available_scenes |-> <<>>]

\* list[i] in Python: a negative i counts from the end.
PyIndexOk(list, i) == -Len(list) <= i /\ i < Len(list)

PyIndex(list, i) == IF i >= 0 THEN list[i + 1] ELSE list[Len(list) + i + 1]

\* Lines 82-86.
get_scene_info(m, scene_name, instance) ==
    IF ~has_scene(m, scene_name, instance)
    THEN SceneNotFoundError(scene_name, instance, list_scenes(m))
    ELSE LET list == ListOf(m.scenes, scene_name)
         IN  IF PyIndexOk(list, instance)
             THEN Returned(PyIndex(list, instance), <<>>)
             ELSE IndexError

\* A range that leaves its end out.
in_scene_end_excluded(info, r) ==
    /\ info.start_game_time_secs <= GetTime(r, 0)
    /\ GetTime(r, 0) < info.end_game_time_secs

\* The condition of lines 94-96.
in_scene(info, r) ==
    /\ info.start_game_time_secs <= GetTime(r, 0)
    /\ GetTime(r, 0) <= info.end_game_time_secs

\* Lines 88-97.
get_scene_records(m, scene_name, instance) ==
    LET got == get_scene_info(m, scene_name, instance)
    IN  IF got.kind # "ok" THEN got
        ELSE Returned(got.info, SelectSeq(m.records, LAMBDA r : in_scene(got.info, r)))

(************************** the sample log of the tests ********************)
Activity(t) == Rec(StrVal("AbsoluteActivityRecord"), Absent, TRUE, t)
Settings(t) == Rec(StrVal("GameSettingsRecord"), Absent, TRUE, t)
Entry(name, t) == Rec(StrVal("SceneEntryRecord"), StrVal(name), TRUE, t)

sample_records ==
    <<Activity(1), Activity(2), Activity(3), Entry("MainMenu", 4), Activity(10),
      Entry("GameLevel1", 15), Activity(20), Activity(22), Settings(25)>>

(************************* SpecScene: the Scene Segmenter ******************)
\* A list is normalized as LogSession.__init__ does, and a SceneManager is
\* built over the normalized list as the scene_manager property does.
InitScene ==
    /\ raw \in RawInputs \cup {sample_records}
    /\ cleaned = <<>>
    /\ recleaned = <<>>
    /\ pc = "start"
    /\ sessions = NoHeap /\ managers = NoHeap /\ dicts = NoHeap /\ views = NoHeap
    /\ reader = NoHeap /\ loader = NoHeap /\ caller = NoHeap

BuildIndex ==
    /\ pc = "cleaned"
    /\ managers' = <<SceneManager(cleaned)>>
    /\ pc' = "built"
    /\ UNCHANGED <<raw, cleaned, recleaned, sessions, dicts, views, reader, loader, caller>>

NextScene == Clean \/ BuildIndex

SpecScene == InitScene /\ [][NextScene]_vars

\* What a caller asks a SceneManager for.
SceneNames == {"A", "B", "MainMenu", "GameLevel1", "DoesNotExist"}
Instances == {-3, -2, -1, 0, 1, 2, 3}

(************************** logs.py: LogSession ****************************)
\* A reference into a heap; None is 0.  A SceneManager is referred to by the
\* number of the session that built it.
None == 0

\* A metadata dict is a set of <<key, value>> pairs.
EmptyDict == {}
FileMeta == {<<"file_path", "session.json">>}

\* Where a session came from: the constructor call of the run ("new"),
\* filter on session `of` with condition `cond`, or scene() on session `of`.
NoCond == [kind |-> "none", types |-> {}, lo |-> 0, hi |-> 0]
Origin(op, of, cond) == [op |-> op, of |-> of, cond |-> cond]

\* FilterFunction values: the lambdas of filter_type and filter_time_range,
\* and a caller's own lambda r: "sceneName" in r.
TypeCond(record_types) == [kind |-> "type", types |-> record_types, lo |-> 0, hi |-> 0]
TimeCond(start, end) == [kind |-> "time", types |-> {}, lo |-> start, hi |-> end]
NamedCond == [kind |-> "named", types |-> {}, lo |-> 0, hi |-> 0]

\* condition(r)
Sat(cond, r) ==
    CASE cond.kind = "type" -> r.myType \in cond.types
      [] cond.kind = "time" -> cond.lo <= GetTime(r, 0) /\ GetTime(r, 0) <= cond.hi
      [] cond.kind = "named" -> r.sceneName.kind # "absent"
      [] OTHER -> TRUE

Heaps(S, M, D) == [sessions |-> S, managers |-> M, dicts |-> D]

\* LogSession.__init__ (lines 63-74) on the heaps S, M, D: the new session is
\* the last of the sessions returned.
LogSession(S, M, D, records, metadata, initialize_scene_manager, _scene_manager, origin) ==
    LET own == _clean_records(records)
        \* self._metadata = metadata or {}
        fresh == metadata = None \/ D[metadata] = EmptyDict
        D2 == IF fresh THEN Append(D, EmptyDict) ELSE D
        meta == IF fresh THEN Len(D2) ELSE metadata
        build == initialize_scene_manager /\ _scene_manager = None
        M2 == Append(M, IF build THEN SceneManager(own) ELSE NoManager)
        sm == IF build THEN Len(M2) ELSE _scene_manager
    IN  Heaps(Append(S, [records |-> own, metadata |-> meta, sm |-> sm, origin |-> origin]),
              M2, D2)

\* The scene_manager property building a new manager at every access.
scene_manager_rebuilding(S, M, D, s) ==
    Heaps([S EXCEPT ![s].sm = s], [M EXCEPT ![s] = SceneManager(S[s].records)], D)

\* The scene_manager property (lines 101-103) of session s: the heaps after
\* the access.
scene_manager(S, M, D, s) ==
    IF S[s].sm = None
    THEN Heaps([S EXCEPT ![s].sm = s], [M EXCEPT ![s] = SceneManager(S[s].records)], D)
    ELSE Heaps(S, M, D)

\* filter keeping the records that fail the condition.
filter_rejecting(S, M, D, s, condition) ==
    LET filtered_records == SelectSeq(S[s].records, LAMBDA r : ~Sat(condition, r))
    IN  LogSession(S, M, D, filtered_records, S[s].metadata, FALSE, S[s].sm,
                   Origin("filter", s, condition))

\* filter that does not hand its scene manager to the new session.
filter_without_manager(S, M, D, s, condition) ==
    LET filtered_records == SelectSeq(S[s].records, LAMBDA r : Sat(condition, r))
    IN  LogSession(S, M, D, filtered_records, S[s].metadata, FALSE, None,
                   Origin("filter", s, condition))

\* LogSession.filter (lines 159-164).
filter(S, M, D, s, condition) ==
    LET filtered_records == SelectSeq(S[s].records, LAMBDA r : Sat(condition, r))
    IN  LogSession(S, M, D, filtered_records, S[s].metadata, FALSE, S[s].sm,
                   Origin("filter", s, condition))

\* filter_time_range counting start and end from the first record of the session.
filter_time_range_from_first(S, M, D, s, start, end) ==
    LET first == IF S[s].records = <<>> THEN 0 ELSE GetTime(S[s].records[1], 0)
    IN  filter(S, M, D, s, TimeCond(start + first, end + first))

\* filter_time_range leaving out the records at `end`.
filter_time_range_end_excluded(S, M, D, s, start, end) ==
    LET filtered_records ==
            SelectSeq(S[s].records,
                      LAMBDA r : start <= GetTime(r, 0) /\ GetTime(r, 0) < end)
    IN  LogSession(S, M, D, filtered_records, S[s].metadata, FALSE, S[s].sm,
                   Origin("filter", s, TimeCond(start, end)))

\* LogSession.filter_type (line 176) and filter_time_range (lines 189-191).
filter_type(S, M, D, s, record_types) == filter(S, M, D, s, TypeCond(record_types))

filter_time_range(S, M, D, s, start, end) == filter(S, M, D, s, TimeCond(start, end))

\* SceneView.__init__
SceneView(session, scene_info) == [session |-> session, info |-> scene_info]

\* What a SceneView method leaves: the heaps and the views, the new view last.
Viewed(h, V, scene_info) ==
    [heaps |-> h, views |-> Append(V, SceneView(Len(h.sessions), scene_info))]

\* SceneView.filter giving the new view the time range of its own records.
view_filter_new_info(S, M, D, V, v, condition) ==
    LET h == filter(S, M, D, V[v].session, condition)
        kept == h.sessions[Len(h.sessions)].records
        info == V[v].info
    IN  Viewed(h, V,
               IF kept = <<>> THEN info
               ELSE SceneInfo(info.name, info.instance,
                              GetTime(kept[1], 0), GetTime(kept[Len(kept)], 0)))

\* SceneView.filter (lines 374-375) of view v of the views V.
view_filter(S, M, D, V, v, condition) ==
    LET filtered_session == filter(S, M, D, V[v].session, condition)
    IN  Viewed(filtered_session, V, V[v].info)

\* SceneView.filter_type (lines 387-388).
view_filter_type(S, M, D, V, v, record_types) ==
    LET filtered_session == filter_type(S, M, D, V[v].session, record_types)
    IN  Viewed(filtered_session, V, V[v].info)

\* SceneView.filter_time_range (lines 401-402).
view_filter_time_range(S, M, D, V, v, start, end) ==
    LET filtered_session == filter_time_range(S, M, D, V[v].session, start, end)
    IN  Viewed(filtered_session, V, V[v].info)

(************************** Spec: sessions *********************************)
\* What a caller passes.
SceneArgs == {"A", "B", "MainMenu", "DoesNotExist"}
InstanceArgs == {-1, 0, 1}
TypeArgs == {{StrVal("AbsoluteActivityRecord")}, {SCENE_ENTRY}}
TimeArgs == {<<0, 1>>, <<1, 15>>}

\* The records of the lists a session is constructed from.
SessionRecords ==
    {Untimed(SCENE_ENTRY, StrVal("A"))}
    \cup Timed(SCENE_ENTRY, StrVal("B"), {1})
    \cup Timed(StrVal("SceneEntryRecord"), StrVal("A"), {1})
    \cup Timed(StrVal("AbsoluteActivityRecord"), Absent, {-1, 1})

SessionInputs == SeqsUpTo(SessionRecords, MaxLen) \cup {sample_records}

\* The state after LogSession(records, metadata, initialize_scene_manager=...).
Init ==
    /\ raw = <<>> /\ cleaned = <<>> /\ recleaned = <<>> /\ pc = "session"
    /\ views = <<>> /\ reader = NoHeap /\ loader = NoHeap /\ caller = NoHeap
    /\ \E records \in SessionInputs,
          metadata \in {EmptyDict, FileMeta},
          initialize_scene_manager \in BOOLEAN :
          LET h == LogSession(<<>>, <<>>, <<metadata>>, records, 1,
                              initialize_scene_manager, None, Origin("new", 0, NoCond))
          IN  sessions = h.sessions /\ managers = h.managers /\ dicts = h.dicts

Frame == UNCHANGED <<raw, cleaned, recleaned, pc, reader, loader, caller>>

Install(h) == sessions' = h.sessions /\ managers' = h.managers /\ dicts' = h.dicts

Room == Len(sessions) < MaxSessions

\* session.filter(lambda r: "sceneName" in r)
Filter ==
    \E s \in DOMAIN sessions :
        /\ Room
        /\ Install(filter(sessions, managers, dicts, s, NamedCond))
        /\ UNCHANGED views /\ Frame

FilterType ==
    \E s \in DOMAIN sessions, record_types \in TypeArgs :
        /\ Room
        /\ Install(filter_type(sessions, managers, dicts, s, record_types))
        /\ UNCHANGED views /\ Frame

FilterTimeRange ==
    \E s \in DOMAIN sessions, range \in TimeArgs :
        /\ Room
        /\ Install(filter_time_range(sessions, managers, dicts, s, range[1], range[2]))
        /\ UNCHANGED views /\ Frame

\* session.list_scenes() (line 112); has_scene, get_scene_info and
\* get_scene_records through session.scene_manager reach the manager the
\* same way.
ListScenes ==
    \E s \in DOMAIN sessions :
        /\ sessions[s].sm = None
        /\ Install(scene_manager(sessions, managers, dicts, s))
        /\ UNCHANGED views /\ Frame

\* scene() wrapping all the records of the manager.
scene_whole_session(h, s, name, instance) ==
    LET m == h.managers[h.sessions[s].sm]
    IN  IF ~has_scene(m, name, instance)
        THEN SceneNotFoundError(name, instance, list_scenes(m))
        ELSE LET scene_info == get_scene_info(m, name, instance)
             IN  IF scene_info.kind # "ok" THEN scene_info
                 ELSE Returned(scene_info.info, m.records)

\* What session.scene(name, instance) (lines 140-147) gives back, computed on
\* the heaps h left by its first access to self.scene_manager.
scene(h, s, name, instance) ==
    LET m == h.managers[h.sessions[s].sm]
    IN  IF ~has_scene(m, name, instance)
        THEN SceneNotFoundError(name, instance, list_scenes(m))
        ELSE LET scene_info == get_scene_info(m, name, instance)
             IN  IF scene_info.kind # "ok" THEN scene_info
                 ELSE get_scene_records(m, name, instance)

\* What session.get_stats() (lines 200-265) gives back, computed on the heaps
\* h left by its access to self.scene_manager; "metadata" is the session's
\* own dict, not a copy (lines 207, 264).
get_stats(h, s) ==
    LET records == h.sessions[s].records
        tags == {records[i].myType : i \in DOMAIN records}
        game_time_stamps == {records[i].timestamp : i \in {j \in DOMAIN records : records[j].hasTime}}
    IN  IF records = <<>>
        THEN [total_records |-> 0, record_types |-> {},
              game_time_range |-> [given |-> FALSE, start |-> 0, end |-> 0],
              scenes |-> <<>>, metadata |-> h.sessions[s].metadata]
        ELSE LET m == h.managers[h.sessions[s].sm]
             IN  [total_records |-> Len(records),
                  record_types |->
                      {<<t, Cardinality({i \in DOMAIN records : records[i].myType = t})>> : t \in tags},
                  game_time_range |->
                      IF game_time_stamps = {}
                      THEN [given |-> FALSE, start |-> 0, end |-> 0]
                      ELSE [given |-> TRUE,
                            start |-> -SetMax({-t : t \in game_time_stamps}),
                            end |-> SetMax(game_time_stamps)],
                  scenes |-> [k \in DOMAIN list_scenes(m) |->
                                 [name |-> list_scenes(m)[k],
                                  instances |-> get_scene_count(m, list_scenes(m)[k])]],
                  metadata |-> h.sessions[s].metadata]

\* session.get_stats(): a session with records reaches its scene manager
\* (line 251), a session without returns before that (lines 200-208).
GetStats ==
    \E s \in DOMAIN sessions :
        /\ sessions[s].sm = None
        /\ sessions[s].records # <<>>
        /\ Install(scene_manager(sessions, managers, dicts, s))
        /\ UNCHANGED views /\ Frame

\* session.scene(name, instance) returning a SceneView.
Scene ==
    \E s \in DOMAIN sessions, name \in SceneArgs, instance \in InstanceArgs :
        LET h == scene_manager(sessions, managers, dicts, s)
            got == scene(h, s, name, instance)
        IN  /\ got.kind = "ok"
            /\ Room
            /\ LET h2 == LogSession(h.sessions, h.managers, h.dicts, got.records,
                                    h.sessions[s].metadata, FALSE, None,
                                    Origin("scene", s, NoCond))
               IN  /\ Install(h2)
                   /\ views' = Append(views, SceneView(Len(h2.sessions), got.info))
            /\ Frame

\* session.scene(name, instance) raising: what stays is the scene manager
\* its first line built.
SceneRaises ==
    \E s \in DOMAIN sessions, name \in SceneArgs, instance \in InstanceArgs :
        LET h == scene_manager(sessions, managers, dicts, s)
        IN  /\ scene(h, s, name, instance).kind # "ok"
            /\ Install(h)
            /\ UNCHANGED views /\ Frame

Next ==
    \/ Filter \/ FilterType \/ FilterTimeRange
    \/ GetStats \/ ListScenes \/ Scene \/ SceneRaises

Spec == Init /\ [][Next]_vars

(************************** reader.py: JSON text ***************************)
\* A text is a sequence of tokens: the punctuation of JSON, the strings
\* "data" and "v", the number 1, a blank, a newline, and a string cut off
\* before its closing quote.
DATA == "\"data\""
V == "\"v\""
CutString == "\"da"
Blank == " "
Newline == "\n"

IsSpace(c) == c \in {Blank, Newline}
IsStringToken(c) == c \in {DATA, V}

\* A parsed value: type "object" (items: its members), "member" (text: the
\* key, items: the value), "array" (items: its elements), "string" or
\* "number" (text: the token).
Value(type, items, text) == [type |-> type, items |-> items, text |-> text]
NoValue == Value("none", <<>>, "")

Parsed(value, next) == [ok |-> TRUE, value |-> value, next |-> next]
NotParsed == [ok |-> FALSE, value |-> NoValue, next |-> 0]

\* orjson.loads on the tokens t from position i on: the value and the
\* position after it.
RECURSIVE ParseValue(_, _)
RECURSIVE ParseMembers(_, _, _)
RECURSIVE ParseElements(_, _, _)
ParseValue(t, i) ==
    IF i > Len(t) THEN NotParsed
    ELSE CASE t[i] = "{" ->
                 IF i + 1 <= Len(t) /\ t[i + 1] = "}"
                 THEN Parsed(Value("object", <<>>, ""), i + 2)
                 ELSE ParseMembers(t, i + 1, <<>>)
           [] t[i] = "[" ->
                 IF i + 1 <= Len(t) /\ t[i + 1] = "]"
                 THEN Parsed(Value("array", <<>>, ""), i + 2)
                 ELSE ParseElements(t, i + 1, <<>>)
           [] IsStringToken(t[i]) -> Parsed(Value("string", <<>>, t[i]), i + 1)
           [] t[i] = "1" -> Parsed(Value("number", <<>>, t[i]), i + 1)
           [] OTHER -> NotParsed

ParseMembers(t, i, members) ==
    IF ~(i + 1 <= Len(t) /\ IsStringToken(t[i]) /\ t[i + 1] = ":") THEN NotParsed
    ELSE LET v == ParseValue(t, i + 2)
             all == Append(members, Value("member", <<v.value>>, t[i]))
         IN  IF ~v.ok \/ v.next > Len(t) THEN NotParsed
             ELSE CASE t[v.next] = "," -> ParseMembers(t, v.next + 1, all)
                    [] t[v.next] = "}" -> Parsed(Value("object", all, ""), v.next + 1)
                    [] OTHER -> NotParsed

ParseElements(t, i, elements) ==
    LET v == ParseValue(t, i)
        all == Append(elements, v.value)
    IN  IF ~v.ok \/ v.next > Len(t) THEN NotParsed
        ELSE CASE t[v.next] = "," -> ParseElements(t, v.next + 1, all)
               [] t[v.next] = "]" -> Parsed(Value("array", all, ""), v.next + 1)
               [] OTHER -> NotParsed

\* orjson.loads(content): blanks and newlines between tokens do not count,
\* and the value must end where the text ends.
loads(content) ==
    LET t == SelectSeq(content, LAMBDA c : ~IsSpace(c))
        v == ParseValue(t, 1)
    IN  IF v.ok /\ v.next = Len(t) + 1 THEN Parsed(v.value, v.next) ELSE NotParsed

\* str.strip()
RECURSIVE lstrip(_)
lstrip(text) == IF text # <<>> /\ IsSpace(Head(text)) THEN lstrip(Tail(text)) ELSE text

RECURSIVE rstrip(_)
rstrip(text) ==
    IF text # <<>> /\ IsSpace(text[Len(text)])
    THEN rstrip(SubSeq(text, 1, Len(text) - 1))
    ELSE text

strip(text) == rstrip(lstrip(text))

\* str.endswith(suffix)
endswith(text, suffix) ==
    /\ Len(suffix) <= Len(text)
    /\ SubSeq(text, Len(text) - Len(suffix) + 1, Len(text)) = suffix

\* _heal_json closing the brackets before it looks for the trailing comma.
_heal_json_closing_first(content) ==
    LET healed == strip(content)
        closed == IF endswith(healed, <<"]", "}">>) THEN healed
                  ELSE IF endswith(healed, <<"]">>) THEN healed \o <<"}">>
                  ELSE healed \o <<"]", "}">>
    IN  IF healed = <<>> THEN healed
        ELSE IF endswith(closed, <<",">>) THEN SubSeq(closed, 1, Len(closed) - 1)
        ELSE closed

\* _heal_json without the test for text that is closed already.
_heal_json_closing_always(content) ==
    LET healed == strip(content)
        without_comma == IF endswith(healed, <<",">>)
                         THEN SubSeq(healed, 1, Len(healed) - 1)
                         ELSE healed
    IN  IF healed = <<>> THEN healed
        ELSE IF endswith(without_comma, <<"]">>) THEN without_comma \o <<"}">>
        ELSE without_comma \o <<"]", "}">>

\* _heal_json (lines 26-47).
_heal_json(content) ==
    LET healed == strip(content)
        without_comma == IF endswith(healed, <<",">>)
                         THEN SubSeq(healed, 1, Len(healed) - 1)
                         ELSE healed
    IN  IF healed = <<>> THEN healed
        ELSE IF endswith(without_comma, <<"]", "}">>) THEN without_comma
        ELSE IF endswith(without_comma, <<"]">>) THEN without_comma \o <<"}">>
        ELSE without_comma \o <<"]", "}">>

(************************** SpecReader: read_records ***********************)
\* The texts a log file may hold: whole documents, every truncation of them,
\* and documents with blanks and newlines around and between the tokens.
Doc == <<"{", DATA, ":", "[", "{", "}", ",", "{", V, ":", "1", "}", "]", "}">>
DocWithTail == <<"{", DATA, ":", "[", "{", "}", "]", ",", V, ":", "1", "}">>
DocWithoutData == <<"{", V, ":", "[", "1", "]", "}">>
DocDataNotArray == <<"{", DATA, ":", "{", "}", "}">>
DocArray == <<"[", "{", "}", "]">>
DocSpaced == <<Newline, "{", DATA, ":", Newline, "[", "{", "}", "]", Blank, "}", Blank>>

Prefixes(text) == {SubSeq(text, 1, n) : n \in 0..Len(text)}

Texts ==
    Prefixes(Doc) \cup Prefixes(DocWithTail) \cup Prefixes(DocWithoutData)
        \cup Prefixes(DocDataNotArray) \cup Prefixes(DocArray) \cup Prefixes(DocSpaced)
        \cup {Doc \o <<",">>, Doc \o <<Newline>>, <<Blank, Newline>>, <<"1">>, <<DATA>>,
              <<"{", CutString>>, <<"{", DATA, ":", "[", "{", CutString>>}

\* A file: absent, present but not readable as text, or holding a text.
Files ==
    {[exists |-> FALSE, readable |-> FALSE, text |-> <<>>],
     [exists |-> TRUE, readable |-> FALSE, text |-> <<>>]}
        \cup {[exists |-> TRUE, readable |-> TRUE, text |-> t] : t \in Texts}

FilePath == "log.json"

NoOutcome ==
    [kind |-> "none", message |-> "", file_path |-> "", original_error |-> "",
     records |-> <<>>]

\* LogReadError(message, file_path, original_error), exceptions.py lines 15-23.
LogReadError(message, file_path, original_error) ==
    [kind |-> "LogReadError", message |-> message, file_path |-> file_path,
     original_error |-> original_error, records |-> <<>>]

\* return records (line 103)
ReturnedRecords(records) ==
    [kind |-> "records", message |-> "", file_path |-> "", original_error |-> "",
     records |-> records]

\* data.get("data") (line 97): the value of the last member with that key.
get_data(data) ==
    LET at == {i \in DOMAIN data.items : data.items[i].text = DATA}
    IN  IF at = {} THEN NoValue ELSE data.items[SetMax(at)].items[1]

\* str.replace("\n", "")
without_newlines(text) == SelectSeq(text, LAMBDA c : c # Newline)

InitReader ==
    /\ raw = <<>> /\ cleaned = <<>> /\ recleaned = <<>> /\ pc = "open"
    /\ sessions = NoHeap /\ managers = NoHeap /\ dicts = NoHeap /\ views = NoHeap
    /\ loader = NoHeap /\ caller = NoHeap
    /\ \E file \in Files :
          reader = [file |-> file, content |-> <<>>, healed_content |-> <<>>,
                    data |-> NotParsed, loads |-> 0, heals |-> 0, outcome |-> NoOutcome]

Heap == UNCHANGED <<raw, cleaned, recleaned, sessions, managers, dicts, views, loader, caller>>

Raise(error) == reader' = [reader EXCEPT !.outcome = error] /\ pc' = "raised"

\* Lines 66-74: the file is looked for and read.
Open ==
    /\ pc = "open"
    /\ IF ~reader.file.exists
       THEN Raise(LogReadError("File not found", FilePath, ""))
       ELSE IF ~reader.file.readable
       THEN Raise(LogReadError("Unexpected error reading file", FilePath, "OSError"))
       ELSE LET content == without_newlines(strip(reader.file.text))
            IN  IF content = <<>>
                THEN Raise(LogReadError("File is empty", FilePath, ""))
                ELSE reader' = [reader EXCEPT !.content = content] /\ pc' = "parse"
    /\ Heap

\* The first parse handing every content to the healer.
ParseFirst_heal_always ==
    /\ pc = "parse"
    /\ reader' = [reader EXCEPT !.data = loads(reader.content), !.loads = @ + 1]
    /\ pc' = "heal"
    /\ Heap

\* Lines 77-79: the content is parsed as it is.
ParseFirst ==
    /\ pc = "parse"
    /\ LET data == loads(reader.content)
       IN  /\ reader' = [reader EXCEPT !.data = data, !.loads = @ + 1]
           /\ pc' = IF data.ok THEN "validate" ELSE "heal"
    /\ Heap

\* Line 81
Heal ==
    /\ pc = "heal"
    /\ reader' = [reader EXCEPT !.healed_content = _heal_json(reader.content),
                                !.heals = @ + 1]
    /\ pc' = "reparse"
    /\ Heap

\* Lines 82-89: the healed content is parsed.
ParseSecond ==
    /\ pc = "reparse"
    /\ LET data == loads(reader.healed_content)
       IN  IF data.ok
           THEN reader' = [reader EXCEPT !.data = data, !.loads = @ + 1]
                /\ pc' = "validate"
           ELSE reader' = [reader EXCEPT
                              !.loads = @ + 1,
                              !.outcome = LogReadError("Failed to parse JSON even after healing",
                                                       FilePath, "JSONDecodeError")]
                /\ pc' = "raised"
    /\ Heap

\* Validation that does not look at what "data" holds.
Validate_data_unchecked ==
    /\ pc = "validate"
    /\ LET data == reader.data.value
           records == get_data(data)
       IN  IF data.type # "object"
           THEN Raise(LogReadError("Invalid log format: root must be an object", FilePath, ""))
           ELSE reader' = [reader EXCEPT !.outcome = ReturnedRecords(records.items)]
                /\ pc' = "returned"
    /\ Heap

\* Lines 92-103
Validate ==
    /\ pc = "validate"
    /\ LET data == reader.data.value
           records == get_data(data)
       IN  IF data.type # "object"
           THEN Raise(LogReadError("Invalid log format: root must be an object", FilePath, ""))
           ELSE IF records.type # "array"
           THEN Raise(LogReadError("Invalid log format: missing 'data' array", FilePath, ""))
           ELSE reader' = [reader EXCEPT !.outcome = ReturnedRecords(records.items)]
                /\ pc' = "returned"
    /\ Heap

NextReader == Open \/ ParseFirst \/ Heal \/ ParseSecond \/ Validate

SpecReader == InitReader /\ [][NextReader]_vars

(************************** SpecHealer: _heal_json *************************)
\* _heal_json called on a text by itself, and again on what it returned.
\* The texts of the reader, and texts with commas and blanks at their end.
HealerTexts ==
    Texts \cup {<<",">>, <<",", ",">>, <<Blank, ",", Blank>>,
                Doc \o <<",", ",">>, Doc \o <<Blank, ",">>, Doc \o <<",", Blank>>,
                DocArray \o <<",">>, DocArray \o <<Blank, ",">>,
                <<"{", DATA, ":", "[", "{", "}", ",", Newline>>,
                <<"{", DATA, ":", "[", "{", "}", "]", Blank, "}">>,
                <<"]", "}">>, <<"}", "]">>, <<"]">>, <<"}">>}

InitHealer ==
    /\ raw = <<>> /\ cleaned = <<>> /\ recleaned = <<>> /\ pc = "text"
    /\ sessions = NoHeap /\ managers = NoHeap /\ dicts = NoHeap /\ views = NoHeap
    /\ loader = NoHeap /\ caller = NoHeap
    /\ \E t \in HealerTexts :
          reader = [file |-> [exists |-> TRUE, readable |-> TRUE, text |-> t],
                    content |-> t, healed_content |-> <<>>,
                    data |-> NotParsed, loads |-> 0, heals |-> 0, outcome |-> NoOutcome]

HealText ==
    /\ pc = "text"
    /\ reader' = [reader EXCEPT !.healed_content = _heal_json(reader.content),
                                !.heals = @ + 1]
    /\ pc' = "healed"
    /\ Heap

\* _heal_json(_heal_json(text)): the second call, on the result of the first.
HealAgain ==
    /\ pc = "healed"
    /\ reader' = [reader EXCEPT !.content = reader.healed_content,
                                !.healed_content = _heal_json(reader.healed_content),
                                !.heals = @ + 1]
    /\ pc' = "rehealed"
    /\ Heap

NextHealer == HealText \/ HealAgain

SpecHealer == InitHealer /\ [][NextHealer]_vars

(************************** SpecView: scene views **************************)
\* A session is constructed, scene() gives views of it, and the views are
\* filtered, the results again.
ViewRoom == Len(views) < MaxViews

InstallView(r) == Install(r.heaps) /\ views' = r.views

\* view.filter(lambda r: "sceneName" in r)
ViewFilter ==
    \E v \in DOMAIN views :
        /\ ViewRoom
        /\ InstallView(view_filter(sessions, managers, dicts, views, v, NamedCond))
        /\ Frame

ViewFilterType ==
    \E v \in DOMAIN views, record_types \in TypeArgs :
        /\ ViewRoom
        /\ InstallView(view_filter_type(sessions, managers, dicts, views, v, record_types))
        /\ Frame

ViewFilterTimeRange ==
    \E v \in DOMAIN views, range \in TimeArgs :
        /\ ViewRoom
        /\ InstallView(view_filter_time_range(sessions, managers, dicts, views, v,
                                              range[1], range[2]))
        /\ Frame

NextView == Scene \/ ViewFilter \/ ViewFilterType \/ ViewFilterTimeRange

SpecView == Init /\ [][NextView]_vars

(************************** SpecLoader: load_all_logs **********************)
\* The names an instance of LogSession answers to: the attributes set in
\* __init__ and the properties and methods of the class.
LogSessionAttributes ==
    {"_records", "_metadata", "_scene_manager", "_extractor",
     "records", "metadata", "__len__", "__repr__", "scene_manager",
     "list_scenes", "extractor", "scene", "filter", "filter_type",
     "filter_time_range", "get_stats", "to_pandas", "export_csv", "export_parquet"}

\* folder_path, and the paths under it that match file_pattern, each relative
\* to the folder.
FolderPath == "logs"
RelativePaths == {"a.json", "sub/b.json", "bad.json"}

\* A file under the folder: what read_records does with it, its records when
\* it is read.
LogFiles ==
    {[path |-> p, reads |-> FALSE, records |-> <<>>] : p \in RelativePaths}
    \cup {[path |-> p, reads |-> TRUE, records |-> records] :
             p \in RelativePaths, records \in {<<>>, sample_records}}

\* folder_path.rglob(file_pattern): one file for a path.
Folders == {F \in SUBSET LogFiles : \A f, g \in F : f.path = g.path => f = g}

\* folder_path / relative path, and file_path.relative_to(folder_path).
Joined(folder, relative) == <<folder, relative>>
relative_to(file_path, folder) == file_path[2]

\* d[key] of a dict d, and d after d[key] = value.
Item(d, key) == (CHOOSE e \in d : e[1] = key)[2]
SetItem(d, key, value) == {e \in d : e[1] # key} \cup {<<key, value>>}

\* What a future holds: nothing yet, or the second component of the pair
\* load_single_log returned, a session or an exception.
Pending == [kind |-> "pending", session |-> None, error |-> ""]
SessionResult(s) == [kind |-> "session", session |-> s, error |-> ""]
ExceptionResult(e) == [kind |-> "exception", session |-> None, error |-> e]

\* load_log (lines 122-123) of a file that read_records reads: the heaps with
\* the new session last.
load_log(S, M, D, file_path, records) ==
    LogSession(S, M, Append(D, {<<"file_path", file_path>>}), records, Len(D) + 1,
               FALSE, None, Origin("new", 0, NoCond))

InitLoader ==
    /\ raw = <<>> /\ cleaned = <<>> /\ recleaned = <<>> /\ pc = "call"
    /\ sessions = NoHeap /\ managers = NoHeap /\ dicts = NoHeap /\ views = NoHeap
    /\ reader = NoHeap /\ caller = NoHeap
    /\ \E exists \in BOOLEAN, is_dir \in BOOLEAN, files \in Folders, skip_errors \in BOOLEAN :
          /\ is_dir => exists
          /\ ~is_dir => files = {}
          /\ loader = [exists |-> exists, is_dir |-> is_dir, log_files |-> files,
                       skip_errors |-> skip_errors, futures |-> {}, completed |-> <<>>,
                       collected |-> 0, results |-> {}, errors |-> <<>>,
                       warning |-> <<>>, outcome |-> NoOutcome]

LoaderFrame == UNCHANGED <<raw, cleaned, recleaned, views, reader, caller>>
NoSessions == UNCHANGED <<sessions, managers, dicts>>

\* Lines 151-163 and 181-186: the folder is looked at and a task is submitted
\* for every file found.
Submit ==
    /\ pc = "call"
    /\ IF ~loader.exists
       THEN /\ loader' = [loader EXCEPT !.outcome =
                              LogReadError("Folder not found", FolderPath, "")]
            /\ pc' = "raised"
       ELSE IF ~loader.is_dir
       THEN /\ loader' = [loader EXCEPT !.outcome =
                              LogReadError("Path is not a directory", FolderPath, "")]
            /\ pc' = "raised"
       ELSE IF loader.log_files = {}
       THEN /\ loader' = loader
            /\ pc' = "returned"
       ELSE /\ loader' = [loader EXCEPT !.futures =
                              {<<f.path, Pending>> : f \in loader.log_files}]
            /\ pc' = "collect"
    /\ NoSessions /\ LoaderFrame

\* load_single_log (lines 165-175) run by a worker to its end, for any file
\* whose task has not finished.
load_single_log ==
    \E file \in loader.log_files :
        LET file_path == Joined(FolderPath, file.path)
            relative_path == relative_to(file_path, FolderPath)
            h == load_log(sessions, managers, dicts, file_path, file.records)
            session == Len(h.sessions)
            result ==
                IF ~file.reads THEN ExceptionResult("LogReadError")
                ELSE IF "set_metadata" \in LogSessionAttributes
                THEN SessionResult(session)
                ELSE ExceptionResult("AttributeError")
        IN  /\ pc \in {"collect", "raising"}
            /\ Item(loader.futures, file.path) = Pending
            /\ IF file.reads
               THEN /\ sessions' = h.sessions /\ managers' = h.managers
                    /\ dicts' =
                         IF "set_metadata" \in LogSessionAttributes
                         THEN [h.dicts EXCEPT ![h.sessions[session].metadata] =
                                   SetItem(@, "relative_path", relative_path)]
                         ELSE h.dicts
               ELSE NoSessions
            /\ loader' = [loader EXCEPT
                              !.futures = SetItem(@, relative_path, result),
                              !.completed = Append(@, relative_path)]
            /\ pc' = pc
            /\ LoaderFrame

\* The loop taking every failure as skip_errors=True does.
Collect_skipping ==
    /\ pc = "collect"
    /\ loader.collected < Len(loader.completed)
    /\ LET relative_path == loader.completed[loader.collected + 1]
           result == Item(loader.futures, relative_path)
       IN  IF result.kind = "exception"
           THEN /\ loader' = [loader EXCEPT
                                  !.collected = @ + 1,
                                  !.errors = Append(@, <<relative_path, result.error>>)]
                /\ pc' = "collect"
           ELSE /\ loader' = [loader EXCEPT
                                  !.collected = @ + 1,
                                  !.results = SetItem(@, relative_path, result.session)]
                /\ pc' = "collect"
    /\ NoSessions /\ LoaderFrame

\* One turn of the loop over as_completed (lines 189-201): the next finished
\* future is taken.
Collect ==
    /\ pc = "collect"
    /\ loader.collected < Len(loader.completed)
    /\ LET relative_path == loader.completed[loader.collected + 1]
           result == Item(loader.futures, relative_path)
       IN  IF result.kind = "exception"
           THEN /\ loader' = [loader EXCEPT
                                  !.collected = @ + 1,
                                  !.errors = Append(@, <<relative_path, result.error>>),
                                  !.outcome =
                                      IF ~loader.skip_errors
                                      THEN LogReadError("Failed to load log file",
                                                        relative_path, result.error)
                                      ELSE @]
                /\ pc' = IF ~loader.skip_errors THEN "raising" ELSE "collect"
           ELSE /\ loader' = [loader EXCEPT
                                  !.collected = @ + 1,
                                  !.results = SetItem(@, relative_path, result.session)]
                /\ pc' = "collect"
    /\ NoSessions /\ LoaderFrame

AllDone == \A e \in loader.futures : e[2] # Pending

\* The exception of line 195 leaves the with block: the executor waits for
\* its workers and the exception reaches the caller.
Propagate ==
    /\ pc = "raising"
    /\ AllDone
    /\ pc' = "raised"
    /\ UNCHANGED loader
    /\ NoSessions /\ LoaderFrame

\* Lines 203-210: every future has been taken; the warning is printed and the
\* results are returned.
Return ==
    /\ pc = "collect"
    /\ loader.collected = Cardinality(loader.futures)
    /\ loader' = [loader EXCEPT !.warning =
                      IF loader.errors # <<>> /\ loader.skip_errors
                      THEN [i \in DOMAIN loader.errors |-> loader.errors[i][1]]
                      ELSE @]
    /\ pc' = "returned"
    /\ NoSessions /\ LoaderFrame

NextLoader == Submit \/ load_single_log \/ Collect \/ Propagate \/ Return

SpecLoader == InitLoader /\ [][NextLoader]_vars

(************************** SpecCaller: what a caller holds ****************)
\* A session is constructed; the calling code reads its properties, asks for
\* its statistics, derives sessions from it, and changes the objects it holds.

\* A list in the caller's hands, read from session `source`: `owner` is the
\* session whose _records list it is (None: a list of its own), and item i is
\* the record it holds with the place in source's _records of the record
\* object it is (None: an object of its own).
HeldList(source, owner, items) == [source |-> source, owner |-> owner, items |-> items]
HeldItem(record, shared) == [record |-> record, shared |-> shared]

\* A dict in the caller's hands: its place in the heap of dicts, how the
\* caller came by it and from which session.
HeldDict(ref, via, of) == [ref |-> ref, via |-> via, of |-> of]

\* copy.deepcopy(self._records): a new list of new records.
deepcopy(s, list) ==
    HeldList(s, None, [i \in DOMAIN list |-> HeldItem(list[i], None)])

\* The records property copying the list but not the records in it.
records_shallow_copy(S, s) ==
    HeldList(s, None, [i \in DOMAIN S[s].records |-> HeldItem(S[s].records[i], i)])

\* LogSession.records (lines 76-79).
records_property(S, s) ==
    deepcopy(s, S[s].records)

\* LogSession.metadata (lines 81-84): self._metadata.copy(), a new dict in the
\* heap.
metadata_property(S, D, s) ==
    [dicts |-> Append(D, D[S[s].metadata]), ref |-> Len(D) + 1]

\* The lists a session is constructed from here.
CallerRecords ==
    {Untimed(SCENE_ENTRY, StrVal("A"))}
    \cup Timed(SCENE_ENTRY, StrVal("B"), {1})
    \cup Timed(StrVal("AbsoluteActivityRecord"), Absent, {1})

CallerInputs == SeqsUpTo(CallerRecords, MaxLen - 1)

HeldCount == Len(caller.lists) + Len(caller.dicts)
HeldRoom == HeldCount < MaxHeld + 1

\* metadata = {...}; session = LogSession(records, metadata, ...): the caller
\* keeps the dict it passed.
InitCaller ==
    /\ raw = <<>> /\ cleaned = <<>> /\ recleaned = <<>> /\ pc = "session"
    /\ views = <<>> /\ reader = NoHeap /\ loader = NoHeap
    /\ \E list \in CallerInputs,
          metadata \in {EmptyDict, FileMeta},
          initialize_scene_manager \in BOOLEAN :
          LET h == LogSession(<<>>, <<>>, <<metadata>>, list, 1,
                              initialize_scene_manager, None, Origin("new", 0, NoCond))
          IN  sessions = h.sessions /\ managers = h.managers /\ dicts = h.dicts
    /\ caller = [lists |-> <<>>, dicts |-> <<HeldDict(1, "argument", 1)>>]

CallerFrame == UNCHANGED <<raw, cleaned, recleaned, pc, views, reader, loader>>

\* records_copy = session.records
GetRecords ==
    \E s \in DOMAIN sessions :
        /\ HeldRoom
        /\ caller' = [caller EXCEPT !.lists = Append(@, records_property(sessions, s))]
        /\ UNCHANGED <<sessions, managers, dicts>>
        /\ CallerFrame

\* metadata_copy = session.metadata
GetMetadata ==
    \E s \in DOMAIN sessions :
        LET got == metadata_property(sessions, dicts, s)
        IN  /\ HeldRoom
            /\ dicts' = got.dicts
            /\ caller' = [caller EXCEPT !.dicts = Append(@, HeldDict(got.ref, "metadata", s))]
            /\ UNCHANGED <<sessions, managers>>
            /\ CallerFrame

\* stats_metadata = session.get_stats()["metadata"]
GetStatsMetadata ==
    \E s \in DOMAIN sessions :
        LET h == IF sessions[s].records = <<>>
                 THEN Heaps(sessions, managers, dicts)
                 ELSE scene_manager(sessions, managers, dicts, s)
        IN  /\ HeldRoom
            /\ Install(h)
            /\ caller' = [caller EXCEPT
                              !.dicts = Append(@, HeldDict(get_stats(h, s).metadata,
                                                           "get_stats", s))]
            /\ CallerFrame

\* del records_copy[-1]
MutateList ==
    \E l \in DOMAIN caller.lists :
        LET held == caller.lists[l]
            last == Len(held.items)
        IN  /\ held.items # <<>>
            /\ caller' = [caller EXCEPT !.lists[l].items = SubSeq(@, 1, last - 1)]
            /\ sessions' = IF held.owner = None THEN sessions
                           ELSE [sessions EXCEPT ![held.owner].records =
                                     SubSeq(@, 1, Len(@) - 1)]
            /\ UNCHANGED <<managers, dicts>>
            /\ CallerFrame

\* records_copy[i]["sceneName"] = "modified"
MutateRecord ==
    \E l \in DOMAIN caller.lists :
        \E i \in DOMAIN caller.lists[l].items :
            LET held == caller.lists[l]
                item == held.items[i]
            IN  /\ item.record.sceneName # StrVal("modified")
                /\ caller' = [caller EXCEPT !.lists[l].items[i].record.sceneName =
                                  StrVal("modified")]
                /\ sessions' = IF item.shared = None THEN sessions
                               ELSE [sessions EXCEPT
                                         ![held.source].records[item.shared].sceneName =
                                             StrVal("modified")]
                /\ UNCHANGED <<managers, dicts>>
                /\ CallerFrame

\* metadata_copy["modified"] = True, for any dict the caller holds
MutateMapping ==
    \E d \in DOMAIN caller.dicts :
        LET ref == caller.dicts[d].ref
        IN  /\ <<"modified", "True">> \notin dicts[ref]
            /\ dicts' = [dicts EXCEPT ![ref] = SetItem(@, "modified", "True")]
            /\ UNCHANGED <<sessions, managers, caller>>
            /\ CallerFrame

NextCaller ==
    \/ Filter \/ Scene \/ GetRecords \/ GetMetadata \/ GetStatsMetadata
    \/ MutateList \/ MutateRecord \/ MutateMapping

SpecCaller == InitCaller /\ [][NextCaller]_vars

(***************************** claims **************************************)
SortedByGameTime(records) ==
    \A i \in 1..(Len(records) - 1) : GetTime(records[i + 1], 0) >= GetTime(records[i], 0)

\* C1: the records of every LogSession (from the constructor, from filter,
\* filter_type, filter_time_range, or wrapped by a SceneView) are in ascending
\* order of game time, a missing game time counting as 0.
C1_SessionsSorted == \A k \in DOMAIN sessions : SortedByGameTime(sessions[k].records)

\* A record without a game time sits between a negative and a positive one,
\* in a run that also filtered a session and took a scene of one.
C1_Witness ==
    /\ \E k \in DOMAIN sessions :
          LET r == sessions[k].records
          IN  /\ Len(r) = 3
              /\ r[1].hasTime /\ r[1].timestamp < 0
              /\ ~r[2].hasTime
              /\ r[3].hasTime /\ r[3].timestamp > 0
    /\ \E k \in DOMAIN sessions : sessions[k].origin.op = "filter" /\ Len(sessions[k].records) >= 2
    /\ \E v \in DOMAIN views : Len(sessions[views[v].session].records) >= 2

FirstOfItsFingerprint(records, i) ==
    \A j \in 1..(i - 1) : json_dumps(records[j]) # json_dumps(records[i])

\* C2: _clean_records keeps exactly one record per distinct fingerprint
\* (key-sorted serialization) of its input, the first one: no two records of
\* the output share a fingerprint, every record of the output is the first
\* of its fingerprint in the input, and no such first record is dropped.
C2_OnePerFingerprint ==
    pc = "cleaned" =>
        /\ \A i, j \in DOMAIN cleaned :
              i # j => json_dumps(cleaned[i]) # json_dumps(cleaned[j])
        /\ \A k \in DOMAIN cleaned :
              \E i \in DOMAIN raw : raw[i] = cleaned[k] /\ FirstOfItsFingerprint(raw, i)
        /\ \A i \in DOMAIN raw :
              FirstOfItsFingerprint(raw, i) => \E k \in DOMAIN cleaned : cleaned[k] = raw[i]
        /\ Len(cleaned) = Cardinality({json_dumps(raw[i]) : i \in DOMAIN raw})

\* Two different records with one fingerprint came in, and the later was dropped.
C2_Witness ==
    /\ pc = "cleaned"
    /\ \E i, j \in DOMAIN raw :
          /\ i < j /\ raw[i] # raw[j] /\ json_dumps(raw[i]) = json_dumps(raw[j])
          /\ \A k \in DOMAIN cleaned : cleaned[k] # raw[j]
    /\ Len(cleaned) = 2

\* C3: _clean_records(_clean_records(r)) = _clean_records(r), same records in
\* the same order.
C3_Idempotent == pc = "recleaned" => recleaned = cleaned

\* The first pass dropped a duplicate and moved records, and two records of
\* the result share a game time.
C3_Witness ==
    /\ pc = "recleaned"
    /\ Len(raw) = 3 /\ Len(cleaned) = 2
    /\ cleaned # SubSeq(raw, 1, 2) /\ cleaned # SubSeq(raw, 2, 3)
    /\ sort_key(cleaned[1]) = sort_key(cleaned[2])

\* The SceneManager of SpecScene and the scene entries its index was built from.
TheManager == managers[1]
TheEntries == scene_entries_of(TheManager.records)

\* A record whose type tag is the scene-marker type "SceneEntryRecord",
\* written as text or as the enum member.
IsMarker(r) == r.myType.val = "SceneEntryRecord"

Accepted(entry) == ~name_is_falsy(GetName(entry))

\* The SceneInfo the index holds for the accepted entry i: under its name, at
\* the position given by the number of accepted entries of that name before it.
InfoOfEntry(m, entries, i) ==
    LET name == GetName(entries[i]).val
        before == {j \in 1..(i - 1) : Accepted(entries[j]) /\ GetName(entries[j]).val = name}
    IN  ListOf(m.scenes, name)[Cardinality(before) + 1]

\* C4: every record whose type tag equals "SceneEntryRecord" is taken as a
\* scene entry when the index is built, and on the sample log of the tests
\* list_scenes() holds "MainMenu" and "GameLevel1" and
\* get_scene_info("MainMenu", 0) gives start 4, end 15, duration 11.
C4_TextTagIsMarker ==
    pc = "built" =>
        /\ \A i \in DOMAIN TheManager.records :
              TheManager.records[i].myType = StrVal("SceneEntryRecord")
                  => \E j \in DOMAIN TheEntries : TheEntries[j] = TheManager.records[i]
        /\ raw = sample_records =>
              LET got == get_scene_info(TheManager, "MainMenu", 0)
              IN  /\ \E k \in DOMAIN list_scenes(TheManager) :
                        list_scenes(TheManager)[k] = "MainMenu"
                  /\ \E k \in DOMAIN list_scenes(TheManager) :
                        list_scenes(TheManager)[k] = "GameLevel1"
                  /\ got.kind = "ok"
                  /\ got.info.start_game_time_secs = 4
                  /\ got.info.end_game_time_secs = 15
                  /\ duration_secs(got.info) = 11

\* C5: a scene instance ends at the game time of the scene entry that follows
\* its own (of any name, a missing game time counting as 0), and the instance
\* of the last scene entry ends at the largest game time of all records.
C5_SceneEnd ==
    pc = "built" =>
        \A i \in DOMAIN TheEntries :
            Accepted(TheEntries[i]) =>
                LET info == InfoOfEntry(TheManager, TheEntries, i)
                IN  IF i < Len(TheEntries)
                    THEN info.end_game_time_secs = GetTime(TheEntries[i + 1], 0)
                    ELSE info.end_game_time_secs =
                             SetMax({GetTime(TheManager.records[k], 0) :
                                        k \in DOMAIN TheManager.records})

\* C6: each name maps to one SceneInfo per marker carrying that non-empty
\* name, in marker order, the k-th with instance k (from 0); markers with a
\* missing or empty name give no entry and no name in list_scenes().
C6_OneInfoPerNamedMarker ==
    pc = "built" =>
        LET markers == SelectSeq(TheManager.records, IsMarker)
        IN  \A name \in SceneNames \cup {""} :
                LET named == SelectSeq(markers, LAMBDA r : GetName(r) = StrVal(name))
                    list == ListOf(TheManager.scenes, name)
                IN  /\ HasKey(TheManager.scenes, name) <=> (name # "" /\ named # <<>>)
                    /\ name # "" =>
                          /\ Len(list) = Len(named)
                          /\ \A k \in DOMAIN list :
                                /\ list[k].name = name
                                /\ list[k].instance = k - 1
                                /\ list[k].start_game_time_secs = GetTime(named[k], 0)

\* C7: has_scene(name, instance) is true exactly when the index holds the
\* instance (0 <= instance < number of instances of the name); then
\* get_scene_info returns the SceneInfo with that name and instance, and
\* otherwise get_scene_info and get_scene_records raise SceneNotFoundError.
C7_HasSceneExact ==
    pc = "built" =>
        \A name \in SceneNames, instance \in Instances :
            LET held == \E k \in DOMAIN TheManager.scenes.keys :
                            /\ TheManager.scenes.keys[k] = name
                            /\ 0 <= instance
                            /\ instance < Len(TheManager.scenes.lists[k])
                got == get_scene_info(TheManager, name, instance)
            IN  /\ has_scene(TheManager, name, instance) <=> held
                /\ has_scene(TheManager, name, instance) =>
                      /\ got.kind = "ok"
                      /\ got.info.name = name
                      /\ got.info.instance = instance
                /\ ~has_scene(TheManager, name, instance) =>
                      /\ got.kind = "SceneNotFoundError"
                      /\ get_scene_records(TheManager, name, instance).kind
                             = "SceneNotFoundError"

InRange(info, r) ==
    info.start_game_time_secs <= GetTime(r, 0) /\ GetTime(r, 0) <= info.end_game_time_secs

\* The positions of the records of `all` that lie in the range of info.
Inside(all, info) == {j \in DOMAIN all : InRange(info, all[j])}

\* C8: get_scene_records(name, instance) returns exactly the records of the
\* manager's sequence with game time in [start, end], both ends included, in
\* sequence order; a record at the boundary two scenes share is returned for both.
C8_SceneRecordsInclusive ==
    pc = "built" =>
        /\ \A name \in SceneNames, instance \in Instances :
              LET got == get_scene_records(TheManager, name, instance)
                  all == TheManager.records
              IN  got.kind = "ok" =>
                      /\ got.info = get_scene_info(TheManager, name, instance).info
                      /\ Len(got.records) = Cardinality(Inside(all, got.info))
                      /\ \A i \in DOMAIN got.records :
                            \E j \in Inside(all, got.info) :
                                /\ all[j] = got.records[i]
                                /\ Cardinality({h \in Inside(all, got.info) : h < j}) = i - 1
        /\ \A n1, n2 \in SceneNames :
              \A i1 \in 0..(get_scene_count(TheManager, n1) - 1),
                 i2 \in 0..(get_scene_count(TheManager, n2) - 1) :
                  LET one == get_scene_records(TheManager, n1, i1)
                      two == get_scene_records(TheManager, n2, i2)
                  IN  one.info.end_game_time_secs = two.info.start_game_time_secs =>
                          \A j \in DOMAIN TheManager.records :
                              GetTime(TheManager.records[j], 0) = one.info.end_game_time_secs
                                  => /\ \E i \in DOMAIN one.records :
                                            one.records[i] = TheManager.records[j]
                                     /\ \E i \in DOMAIN two.records :
                                            two.records[i] = TheManager.records[j]

\* Two scenes share a boundary at which a record other than a scene entry
\* lies, and a record of the manager is outside the second scene.
C8_Witness ==
    /\ pc = "built"
    /\ get_scene_count(TheManager, "A") = 1 /\ get_scene_count(TheManager, "B") = 1
    /\ LET a == get_scene_records(TheManager, "A", 0)
           b == get_scene_records(TheManager, "B", 0)
       IN  /\ a.kind = "ok" /\ b.kind = "ok"
           /\ a.info.end_game_time_secs = b.info.start_game_time_secs
           /\ a.info.start_game_time_secs < a.info.end_game_time_secs
           /\ Len(b.records) < Len(TheManager.records)
           /\ \E i \in DOMAIN a.records, j \in DOMAIN b.records :
                 /\ a.records[i] = b.records[j]
                 /\ ~is_scene_entry(a.records[i])

\* The sessions a step creates.
NewSessions == DOMAIN sessions' \ DOMAIN sessions

\* The positions of the records of session s that satisfy cond.
Kept(s, cond) == {j \in DOMAIN sessions[s].records : Sat(cond, sessions[s].records[j])}

\* C9: filter(p), filter_type and filter_time_range return a new session
\* whose records are exactly the receiver's records that satisfy p, in the
\* receiver's order, with the same metadata; the records and the metadata of
\* the receiver (and of every other session) are after the call what they
\* were before it.
C9_FilterFrame ==
    [][ /\ \A n \in NewSessions :
              sessions'[n].origin.op = "filter" =>
                  LET s == sessions'[n].origin.of
                      p == sessions'[n].origin.cond
                      got == sessions'[n].records
                  IN  /\ Len(got) = Cardinality(Kept(s, p))
                      /\ \A i \in DOMAIN got :
                            \E j \in Kept(s, p) :
                                /\ sessions[s].records[j] = got[i]
                                /\ Cardinality({h \in Kept(s, p) : h < j}) = i - 1
                      /\ dicts'[sessions'[n].metadata] = dicts[sessions[s].metadata]
        /\ \A k \in DOMAIN sessions :
              /\ k \in DOMAIN sessions'
              /\ sessions'[k].records = sessions[k].records
              /\ dicts'[sessions'[k].metadata] = dicts[sessions[k].metadata]
      ]_vars

\* A filter of a session with file metadata kept some of its records and
\* dropped others, among them one that lay between two kept ones.
C9_Witness ==
    \E n \in DOMAIN sessions :
        /\ sessions[n].origin.op = "filter"
        /\ LET s == sessions[n].origin.of
           IN  /\ Len(sessions[s].records) = 3
               /\ Len(sessions[n].records) = 2
               /\ sessions[n].records[1] = sessions[s].records[1]
               /\ sessions[n].records[2] = sessions[s].records[3]
               /\ dicts[sessions[s].metadata] = FileMeta
               /\ dicts[sessions[n].metadata] = FileMeta

\* What every step keeps of the scene managers: a session that has one keeps
\* it, a session that gets one gets its own, built from its own records, and
\* a manager once built stays as it is.
ManagersKept ==
    /\ \A k \in DOMAIN sessions :
          /\ sessions[k].sm # None => sessions'[k].sm = sessions[k].sm
          /\ (sessions[k].sm = None /\ sessions'[k].sm # None) =>
                /\ sessions'[k].sm = k
                /\ managers'[k] = SceneManager(sessions[k].records)
    /\ \A m \in DOMAIN managers : managers[m].built => managers'[m] = managers[m]

\* C10 as stated: s2 = s.filter(p) uses the scene manager s had when filter
\* was called, and that manager's index is built from the scene entries of
\* s's own records; if s had none, s2 has none and builds its own from its
\* filtered records on its first scene query, whatever s does afterwards.
C10_IndexOfReceiver ==
    [][ /\ \A n \in NewSessions :
              sessions'[n].origin.op = "filter" =>
                  LET s == sessions'[n].origin.of
                  IN  IF sessions[s].sm # None
                      THEN /\ sessions'[n].sm = sessions[s].sm
                           /\ scene_entries_of(managers'[sessions'[n].sm].records)
                                  = scene_entries_of(sessions[s].records)
                      ELSE sessions'[n].sm = None
        /\ ManagersKept
      ]_vars

\* C10, amended: s2 = s.filter(p) uses the scene manager s had when filter
\* was called, whose index is built from the records of the session that
\* built it (s, or the session s has it from); if s had none, s2 has none and
\* builds its own from its filtered records on its first scene query,
\* whatever s does afterwards.
C10_FilterSharesRealized ==
    [][ /\ \A n \in NewSessions :
              sessions'[n].origin.op = "filter" =>
                  LET s == sessions'[n].origin.of
                  IN  IF sessions[s].sm # None
                      THEN /\ sessions'[n].sm = sessions[s].sm
                           /\ managers'[sessions'[n].sm]
                                  = SceneManager(sessions[sessions[s].sm].records)
                      ELSE sessions'[n].sm = None
        /\ ManagersKept
      ]_vars

\* Session 2 was filtered from session 1 before session 1 had a scene
\* manager and built its own, a different one, though session 1 has one now;
\* session 3 was filtered from session 1 afterwards and uses the manager of
\* session 1, which lists scenes that the records of session 3 do not give.
C10_Witness ==
    /\ Len(sessions) = 3
    /\ sessions[1].sm = 1
    /\ sessions[2].origin = Origin("filter", 1, sessions[2].origin.cond)
    /\ sessions[2].sm = 2
    /\ managers[2].scenes # managers[1].scenes
    /\ sessions[3].origin = Origin("filter", 1, sessions[3].origin.cond)
    /\ sessions[3].sm = 1
    /\ managers[1].scenes # EmptyScenes
    /\ _build_scene_index(sessions[3].records) = EmptyScenes

\* The conditions a caller filters with.
Conds ==
    {NamedCond} \cup {TypeCond(T) : T \in TypeArgs}
                \cup {TimeCond(range[1], range[2]) : range \in TimeArgs}

\* What a caller gets from session s on the heaps S, M, D: its records, its
\* list_scenes(), and the records and the list_scenes() of s.filter(cond).
Later(S, M, D, s, cond) ==
    LET h == scene_manager(S, M, D, s)
        f == filter(S, M, D, s, cond)
        n == Len(f.sessions)
        g == scene_manager(f.sessions, f.managers, f.dicts, n)
    IN  [records |-> S[s].records,
         list_scenes |-> list_scenes(h.managers[h.sessions[s].sm]),
         filtered |-> f.sessions[n].records,
         filtered_list_scenes |-> list_scenes(g.managers[g.sessions[n].sm])]

\* C11: list_scenes(), scene(), get_stats() and reading scene_manager are
\* pure: such a call changes neither the records of the session nor what a
\* later operation on it, or on a session filtered from it afterwards, gives.
C11_ReadOnlyCalls ==
    [][ (\A n \in NewSessions : sessions'[n].origin.op # "filter") =>
            \A s \in DOMAIN sessions, cond \in Conds :
                Later(sessions', managers', dicts', s, cond)
                    = Later(sessions, managers, dicts, s, cond)
      ]_vars

\* The index holds instance number `instance` (from 0) of the scene `name`.
ExistingInstance(m, name, instance) ==
    /\ HasKey(m.scenes, name)
    /\ 0 <= instance
    /\ instance < Len(ListOf(m.scenes, name))

\* got holds exactly the records of `all` in the range of info, in the order of `all`.
ExactlyInside(got, all, info) ==
    /\ Len(got) = Cardinality(Inside(all, info))
    /\ \A i \in DOMAIN got :
          \E j \in Inside(all, info) :
              /\ all[j] = got[i]
              /\ Cardinality({h \in Inside(all, info) : h < j}) = i - 1

\* C12: session.scene(name, instance) for an instance the index holds gives a
\* SceneView whose info is the index's SceneInfo for (name, instance) and whose
\* records are exactly the records with game time in [info.start, info.end],
\* in a fresh session with the session's metadata and no scene manager.
C12_SceneGivesView ==
    /\ [](\A s \in DOMAIN sessions, name \in SceneArgs, instance \in InstanceArgs :
            LET h == scene_manager(sessions, managers, dicts, s)
                m == h.managers[h.sessions[s].sm]
                got == scene(h, s, name, instance)
            IN  ExistingInstance(m, name, instance) =>
                    /\ got.kind = "ok"
                    /\ got.info = ListOf(m.scenes, name)[instance + 1]
                    /\ got.info.name = name /\ got.info.instance = instance
                    /\ ExactlyInside(got.records, m.records, got.info))
    /\ [][ \A n \in NewSessions :
              sessions'[n].origin.op = "scene" =>
                  LET s == sessions'[n].origin.of
                      m == managers'[sessions'[s].sm]
                      v == views'[Len(views')]
                  IN  /\ Len(views') = Len(views) + 1
                      /\ v.session = n
                      /\ HasKey(m.scenes, v.info.name)
                      /\ \E k \in DOMAIN ListOf(m.scenes, v.info.name) :
                            ListOf(m.scenes, v.info.name)[k] = v.info
                      /\ ExactlyInside(sessions'[n].records, m.records, v.info)
                      /\ dicts'[sessions'[n].metadata] = dicts[sessions[s].metadata]
                      /\ sessions'[n].sm = None
         ]_vars

\* A view of a scene that lasts, over a session with file metadata and a
\* scene manager: it holds some but not all of the records of that session.
C12_Witness ==
    \E v \in DOMAIN views :
        LET n == views[v].session
            s == sessions[n].origin.of
        IN  /\ sessions[n].origin.op = "scene"
            /\ views[v].info.start_game_time_secs < views[v].info.end_game_time_secs
            /\ Len(sessions[n].records) >= 2
            /\ Len(sessions[n].records) < Len(sessions[s].records)
            /\ sessions[s].sm = s
            /\ sessions[n].sm = None
            /\ dicts[sessions[n].metadata] = FileMeta

\* C13: session.scene(name, instance) for a name or an instance the index
\* does not hold raises SceneNotFoundError with the requested name, the
\* requested instance and the scene names of the session, and gives no view.
C13_AbsentSceneRaises ==
    /\ [](\A s \in DOMAIN sessions, name \in SceneArgs, instance \in InstanceArgs :
            LET h == scene_manager(sessions, managers, dicts, s)
                m == h.managers[h.sessions[s].sm]
            IN  ~ExistingInstance(m, name, instance) =>
                    scene(h, s, name, instance)
                        = SceneNotFoundError(name, instance, list_scenes(m)))
    /\ [][ \A n \in NewSessions :
              sessions'[n].origin.op = "scene" =>
                  LET s == sessions'[n].origin.of
                      info == views'[Len(views')].info
                  IN  ExistingInstance(managers'[sessions'[s].sm], info.name, info.instance)
         ]_vars

\* The records of session.filter_type(T).filter_time_range(a, b).
TypeThenTime(s, T, a, b) ==
    LET h == filter_type(sessions, managers, dicts, s, T)
        g == filter_time_range(h.sessions, h.managers, h.dicts, Len(h.sessions), a, b)
    IN  g.sessions[Len(g.sessions)].records

\* The records of session.filter_time_range(a, b).filter_type(T).
TimeThenType(s, T, a, b) ==
    LET h == filter_time_range(sessions, managers, dicts, s, a, b)
        g == filter_type(h.sessions, h.managers, h.dicts, Len(h.sessions), T)
    IN  g.sessions[Len(g.sessions)].records

\* C14: for every session, every set of types T and every a, b,
\* session.filter_type(T).filter_time_range(a, b) and
\* session.filter_time_range(a, b).filter_type(T) hold the same records in the
\* same order.
C14_TypeAndTimeCommute ==
    /\ \A s \in DOMAIN sessions, T \in TypeArgs, range \in TimeArgs :
          TypeThenTime(s, T, range[1], range[2]) = TimeThenType(s, T, range[1], range[2])
    /\ \A n \in DOMAIN sessions :
          LET of == sessions[n].origin.of
          IN  (/\ sessions[n].origin.op = "filter"
               /\ sessions[n].origin.cond.kind = "time"
               /\ sessions[of].origin.op = "filter"
               /\ sessions[of].origin.cond.kind = "type") =>
                  sessions[n].records
                      = TimeThenType(sessions[of].origin.of, sessions[of].origin.cond.types,
                                     sessions[n].origin.cond.lo, sessions[n].origin.cond.hi)

\* A session of three records was filtered by type and the result by time,
\* and each filter dropped a record.
C14_Witness ==
    \E n \in DOMAIN sessions :
        LET of == sessions[n].origin.of
        IN  /\ sessions[n].origin.op = "filter" /\ sessions[n].origin.cond.kind = "time"
            /\ sessions[of].origin.op = "filter" /\ sessions[of].origin.cond.kind = "type"
            /\ Len(sessions[sessions[of].origin.of].records) = 3
            /\ Len(sessions[of].records) = 2
            /\ Len(sessions[n].records) = 1

\* The game time of r lies in [start, end], a missing game time counting as 0.
Within(r, start, end) ==
    LET t == IF r.hasTime THEN r.timestamp ELSE 0
    IN  start <= t /\ t <= end

\* C15: filter_time_range(start, end) keeps exactly the records with
\* start <= game time <= end (missing = 0), both ends included; on the sample
\* log filter_time_range(1, 15) keeps the GameLevel1 marker at 15.
C15_TimeRangeInclusive ==
    \A n \in DOMAIN sessions :
        (sessions[n].origin.op = "filter" /\ sessions[n].origin.cond.kind = "time") =>
            LET all == sessions[sessions[n].origin.of].records
                got == sessions[n].records
                start == sessions[n].origin.cond.lo
                end == sessions[n].origin.cond.hi
            IN  /\ \A i \in DOMAIN got :
                      /\ Within(got[i], start, end)
                      /\ \E j \in DOMAIN all : all[j] = got[i]
                /\ \A j \in DOMAIN all :
                      Within(all[j], start, end) => \E i \in DOMAIN got : got[i] = all[j]
                /\ \A i, k \in DOMAIN got :
                      i < k => \E j, l \in DOMAIN all :
                                  j < l /\ all[j] = got[i] /\ all[l] = got[k]
                /\ (all = sample_records /\ start = 1 /\ end = 15) =>
                      /\ Len(got) = 6
                      /\ got[6] = Entry("GameLevel1", 15)

\* filter_time_range(1, 15) on the sample log kept the marker at 15 and
\* dropped the records after it.
C15_Witness ==
    \E n \in DOMAIN sessions :
        /\ sessions[n].origin = Origin("filter", 1, TimeCond(1, 15))
        /\ sessions[1].records = sample_records
        /\ sessions[n].records[Len(sessions[n].records)] = Entry("GameLevel1", 15)
        /\ Len(sessions[n].records) < Len(sample_records)

\* The view that wraps session n.
ViewOf(n) == CHOOSE v \in DOMAIN views : views[v].session = n

\* The view scene() gave, from which view v comes by filters.
RECURSIVE OriginalOf(_)
OriginalOf(v) ==
    IF sessions[views[v].session].origin.op = "filter"
    THEN OriginalOf(ViewOf(sessions[views[v].session].origin.of))
    ELSE v

\* The filters of v's chain applied, in the order of the chain, to the
\* records of the session the original view wraps.
RECURSIVE FilteredFromOriginal(_)
FilteredFromOriginal(n) ==
    IF sessions[n].origin.op = "filter"
    THEN SelectSeq(FilteredFromOriginal(sessions[n].origin.of),
                   LAMBDA r : Sat(sessions[n].origin.cond, r))
    ELSE sessions[n].records

Ended == pc \in {"returned", "raised"}

\* What read_records read from the file and parses.
ContentOf(file) == SelectSeq(strip(file.text), LAMBDA c : c # Newline)

HasContent == reader.file.exists /\ reader.file.readable /\ ContentOf(reader.file) # <<>>

\* C17: read_records parses at most twice: content that parses as it is never
\* reaches the healer; after a failed first parse the healer is called once
\* and its result parsed once; if that parse fails too the call fails with a
\* parse error carrying the parser's error, and nothing is tried again.
C17_ParseAtMostTwice ==
    /\ [](/\ reader.loads <= 2 /\ reader.heals <= 1
          /\ (Ended /\ HasContent) =>
                IF loads(ContentOf(reader.file)).ok
                THEN reader.loads = 1 /\ reader.heals = 0
                ELSE /\ reader.loads = 2 /\ reader.heals = 1
                     /\ reader.healed_content = _heal_json(ContentOf(reader.file))
                     /\ ~loads(reader.healed_content).ok =>
                           /\ pc = "raised"
                           /\ reader.outcome.kind = "LogReadError"
                           /\ reader.outcome.message = "Failed to parse JSON even after healing"
                           /\ reader.outcome.original_error = "JSONDecodeError")
    /\ [][~Ended]_vars

\* A truncated text that the healer could not repair: two parses, one
\* healing, and the error of the parser in the error raised.
C17_Witness ==
    /\ pc = "raised"
    /\ reader.loads = 2 /\ reader.heals = 1
    /\ reader.healed_content # reader.content
    /\ reader.outcome.original_error = "JSONDecodeError"

\* The value read_records validates: the content's, or else the healed content's.
RootOf(file) ==
    IF loads(ContentOf(file)).ok
    THEN loads(ContentOf(file))
    ELSE loads(_heal_json(ContentOf(file)))

\* C18: read_records returns records only if the file exists, its trimmed
\* content is not empty, the content parses (as it is or healed), the root is
\* an object and its "data" an array, and then returns that array's elements
\* in order; a missing file or empty content fails with a read error, a root
\* that is no object with "root must be an object", "data" missing or no
\* array with "missing 'data' array", each with the file path.
C18_ReadRecordsOutcome ==
    Ended =>
        LET out == reader.outcome
            root == RootOf(reader.file)
            array == get_data(root.value)
        IN  /\ pc = "returned" <=>
                  /\ HasContent /\ root.ok
                  /\ root.value.type = "object"
                  /\ array.type = "array"
            /\ pc = "returned" => out.kind = "records" /\ out.records = array.items
            /\ pc = "raised" => out.kind = "LogReadError" /\ out.file_path = FilePath
            /\ ~reader.file.exists => out.message = "File not found"
            /\ (reader.file.exists /\ reader.file.readable /\ ~HasContent) =>
                  out.message = "File is empty"
            /\ (HasContent /\ root.ok /\ root.value.type # "object") =>
                  out.message = "Invalid log format: root must be an object"
            /\ (HasContent /\ root.ok /\ root.value.type = "object" /\ array.type # "array") =>
                  out.message = "Invalid log format: missing 'data' array"

\* A truncated file was healed and its two records returned.
C18_Witness ==
    /\ pc = "returned"
    /\ reader.heals = 1
    /\ Len(reader.outcome.records) = 2
    /\ reader.outcome.records[1] # reader.outcome.records[2]

\* C19: for every text t that is valid JSON, _heal_json(t) parses and gives
\* the same value as t.
C19_HealKeepsValidJson ==
    (pc = "healed" /\ loads(reader.content).ok) =>
        /\ loads(reader.healed_content).ok
        /\ loads(reader.healed_content).value = loads(reader.content).value

\* The files of the folder that load_log loads: read_records reads them.
Loadable == {f \in loader.log_files : f.reads}

\* The session under a key of the returned mapping carries the key as its
\* 'relative_path' and has a 'file_path'.
EntryDescribed(e) ==
    LET metadata == dicts[sessions[e[2]].metadata]
    IN  /\ <<"relative_path", e[1]>> \in metadata
        /\ \E m \in metadata : m[1] = "file_path"

\* C20: load_all_logs(folder, skip_errors=True) on a folder returns, in whatever
\* order the workers finish, a mapping with exactly one entry for every matching
\* file whose load succeeds, keyed by the file's relative path, each session's
\* metadata holding 'relative_path' equal to the key and a 'file_path'; the
\* files whose load fails are left out and no error is raised.
C20_OneEntryPerLoadedFile ==
    (loader # NoHeap /\ loader.skip_errors /\ loader.is_dir) =>
        /\ pc # "raised" /\ pc # "raising"
        /\ pc = "returned" =>
              /\ {e[1] : e \in loader.results} = {f.path : f \in Loadable}
              /\ Cardinality(loader.results) = Cardinality(Loadable)
              /\ \A e \in loader.results : EntryDescribed(e)

\* The key of every entry of a dict.
Keys(d) == {e[1] : e \in d}

\* C21: load_all_logs(folder, skip_errors=False) raises LogReadError naming the
\* failed file as soon as a result it collects is a failure, and returns only
\* when every matching file loaded, then with the mapping of all the files:
\* it never returns a partial mapping.
C21_FailFast ==
    (loader # NoHeap /\ ~loader.skip_errors /\ loader.is_dir) =>
        /\ Len(loader.errors) <= 1
        /\ loader.errors # <<>> <=> pc \in {"raising", "raised"}
        /\ loader.errors # <<>> =>
              /\ loader.collected = Cardinality(loader.results) + 1
              /\ loader.outcome = LogReadError("Failed to load log file",
                                               loader.completed[loader.collected],
                                               loader.errors[1][2])
              /\ Item(loader.futures, loader.outcome.file_path).kind = "exception"
        /\ pc = "returned" =>
              /\ loader.outcome = NoOutcome
              /\ Keys(loader.results) = {f.path : f \in loader.log_files}
              /\ \A f \in loader.log_files : f.reads

\* A failure is collected while other results wait, and the error reaches the
\* caller.
C21_Witness ==
    /\ loader # NoHeap /\ ~loader.skip_errors /\ pc = "raised"
    /\ Cardinality(loader.log_files) = 3
    /\ loader.collected = 1
    /\ loader.outcome.file_path = "sub/b.json"
    /\ \E f \in loader.log_files : f.path = "sub/b.json" /\ ~f.reads

\* What session s gives on a read of its records and of its metadata.
ReportedRecords(S, s) == S[s].records
ReportedMetadata(S, D, s) == D[S[s].metadata]

\* Nothing any session reports is different after the step.
ReportsKept ==
    \A s \in DOMAIN sessions :
        /\ ReportedRecords(sessions', s) = ReportedRecords(sessions, s)
        /\ ReportedMetadata(sessions', dicts', s) = ReportedMetadata(sessions, dicts, s)

\* The step changes a list the caller got from the records property, or a
\* record in it.
ListMutated == \E l \in DOMAIN caller.lists : caller'.lists[l] # caller.lists[l]

\* The step changes a dict the caller got in the given way.
MappingMutated(via) ==
    \E d \in DOMAIN caller.dicts :
        /\ caller.dicts[d].via = via
        /\ dicts'[caller.dicts[d].ref] # dicts[caller.dicts[d].ref]

\* C22: the records and metadata properties return copies: changing a returned
\* list, a record in it or a returned metadata mapping changes nothing a session
\* gives on a later read of records or metadata.
C22_PropertiesReturnCopies ==
    [][(ListMutated \/ MappingMutated("metadata")) => ReportsKept]_vars

\* The caller has changed a record of a list it read, shortened another, and
\* written to a metadata mapping it read, and the session reports what it did
\* before.
C22_Witness ==
    /\ caller # NoHeap
    /\ \E l \in DOMAIN caller.lists :
          \E i \in DOMAIN caller.lists[l].items :
              /\ caller.lists[l].items[i].record.sceneName = StrVal("modified")
              /\ sessions[caller.lists[l].source].records[i].sceneName # StrVal("modified")
    /\ \E l \in DOMAIN caller.lists :
          Len(caller.lists[l].items) < Len(sessions[caller.lists[l].source].records)
    /\ \E d \in DOMAIN caller.dicts :
          /\ caller.dicts[d].via = "metadata"
          /\ <<"modified", "True">> \in dicts[caller.dicts[d].ref]
          /\ <<"modified", "True">> \notin dicts[sessions[caller.dicts[d].of].metadata]

\* The manager a session has is one that was built, from the records of the
\* session that built it.
SegmenterBuilt(s) ==
    sessions[s].sm # None =>
        /\ managers[sessions[s].sm].built
        /\ managers[sessions[s].sm] = SceneManager(sessions[sessions[s].sm].records)

\* A session that has a manager keeps that one, with its index as it was; a
\* session that had none and gets one has built it itself from its records.
SegmenterKept(s) ==
    /\ sessions[s].sm # None =>
          /\ sessions'[s].sm = sessions[s].sm
          /\ managers'[sessions[s].sm] = managers[sessions[s].sm]
    /\ (sessions[s].sm = None /\ sessions'[s].sm # None) =>
          /\ sessions'[s].sm = s
          /\ managers'[s] = SceneManager(sessions[s].records)

\* A session made in the step has no manager, unless filter handed it the one
\* the session it was filtered from has.
SegmenterNotBefore(n) ==
    \/ sessions'[n].sm = None
    \/ /\ sessions'[n].origin.op = "filter"
       /\ sessions'[n].sm = sessions'[sessions'[n].origin.of].sm

\* C23: a session has at most one scene manager in its life: it is built at
\* the first access of scene_manager (not before, unless built eagerly or
\* inherited), and every later access, directly or through list_scenes, scene
\* or get_stats, finds the same instance with the same scene index.
C23_OneSegmenter ==
    /\ [](\A s \in DOMAIN sessions : SegmenterBuilt(s))
    /\ [][/\ \A s \in DOMAIN sessions : SegmenterKept(s)
          /\ \A n \in DOMAIN sessions' \ DOMAIN sessions : SegmenterNotBefore(n)]_vars

\* A filtered session that inherited nothing built its manager when scene()
\* was called on it, and the session it came from still has none.
C23_Witness ==
    \E s \in DOMAIN sessions, n \in DOMAIN sessions :
        /\ sessions[s].origin.op = "filter"
        /\ sessions[s].sm = s
        /\ sessions[sessions[s].origin.of].sm = None
        /\ sessions[n].origin = Origin("scene", s, NoCond)
        /\ sessions[n].sm = None

\* Every record of session n is a record of session s.
RecordsWithin(n, s) ==
    \A i \in DOMAIN sessions[n].records :
        \E j \in DOMAIN sessions[s].records : sessions[n].records[i] = sessions[s].records[j]

\* C24: for a session s2 got from a session s by filter, filter_type or
\* filter_time_range, every record of the view s2.scene(name, instance) gives
\* is a record of s2, whether or not s had its scene manager when it was
\* filtered.
C24_ViewWithinFiltered ==
    \A n \in DOMAIN sessions :
        (/\ sessions[n].origin.op = "scene"
         /\ sessions[sessions[n].origin.of].origin.op = "filter")
            => RecordsWithin(n, sessions[n].origin.of)

\* The text between the first and the last token that is not a blank or a
\* newline.
Trimmed(text) ==
    LET inked == {i \in DOMAIN text : ~IsSpace(text[i])}
    IN  IF inked = {} THEN <<>>
        ELSE SubSeq(text, CHOOSE i \in inked : \A j \in inked : i <= j,
                          CHOOSE i \in inked : \A j \in inked : j <= i)

\* The text without its last token when that is a comma.
CommaDropped(text) ==
    IF text # <<>> /\ text[Len(text)] = "," THEN SubSeq(text, 1, Len(text) - 1) ELSE text

\* The last n tokens of the text are these.
EndsIn(text, tokens) ==
    /\ Len(text) >= Len(tokens)
    /\ \A k \in DOMAIN tokens : text[Len(text) - Len(tokens) + k] = tokens[k]

\* C25: the healer works on the trimmed text in two steps, in this order: one
\* trailing comma, if there is one, is removed; then text ending in ']}' is
\* left as it is, text ending in ']' gets '}' appended, and any other text gets
\* ']}' appended. Empty text comes back empty.
C25_HealerSteps ==
    (pc \in {"healed", "rehealed"}) =>
        LET trimmed == Trimmed(reader.content)
            body == CommaDropped(trimmed)
            healed == reader.healed_content
        IN  /\ trimmed = <<>> => healed = <<>>
            /\ (trimmed # <<>> /\ EndsIn(body, <<"]", "}">>)) => healed = body
            /\ (trimmed # <<>> /\ ~EndsIn(body, <<"]", "}">>) /\ EndsIn(body, <<"]">>)) =>
                  healed = body \o <<"}">>
            /\ (trimmed # <<>> /\ ~EndsIn(body, <<"]">>) /\ ~EndsIn(body, <<"]", "}">>)) =>
                  healed = body \o <<"]", "}">>

\* A text ending in '],' has lost the comma and got '}'.
C25_Witness ==
    /\ pc = "healed"
    /\ reader.content = <<"{", DATA, ":", "[", "{", "}", "]", ",">>
    /\ reader.healed_content = <<"{", DATA, ":", "[", "{", "}", "]", "}">>

\* C30: for every text that is not empty after trimming, _heal_json returns
\* text ending in ']}', and healing twice gives what healing once gives.
C30_HealIdempotent ==
    /\ (pc = "healed" /\ Trimmed(reader.content) # <<>>) =>
          EndsIn(reader.healed_content, <<"]", "}">>)
    /\ pc = "rehealed" => reader.healed_content = reader.content

\* A text that had to be closed was healed a second time.
C30_Witness ==
    /\ pc = "rehealed"
    /\ reader.heals = 2
    /\ reader.file.text # reader.content
    /\ Trimmed(reader.file.text) # <<>>
    /\ reader.healed_content = reader.content

\* Where the first record with the fingerprint of r stands in the list.
FirstOccurrence(records, r) ==
    CHOOSE i \in DOMAIN records :
        /\ json_dumps(records[i]) = json_dumps(r)
        /\ FirstOfItsFingerprint(records, i)

\* C26: the sort of _clean_records is stable: two records with the same game
\* time (a missing one counting as 0) stand in the result in the order of their
\* first occurrences in the input.
C26_SortStable ==
    pc = "cleaned" =>
        \A k, l \in DOMAIN cleaned :
            (k < l /\ GetTime(cleaned[k], 0) = GetTime(cleaned[l], 0)) =>
                FirstOccurrence(raw, cleaned[k]) < FirstOccurrence(raw, cleaned[l])

\* The sort moved a record past two records that share a game time, one of
\* them without one, and those two kept their order.
C26_Witness ==
    /\ pc = "cleaned"
    /\ Len(raw) = 3 /\ Len(cleaned) = 3
    /\ cleaned = <<raw[2], raw[3], raw[1]>>
    /\ GetTime(raw[2], 0) = GetTime(raw[3], 0)
    /\ raw[2].hasTime # raw[3].hasTime

\* Every SceneInfo of the index of manager m.
InfosOf(m) ==
    UNION {{m.scenes.lists[k][i] : i \in DOMAIN m.scenes.lists[k]} : k \in DOMAIN m.scenes.lists}

\* C27: every SceneInfo of a scene index a session can see, which is an index
\* built over a normalized list, has end_game_time >= start_game_time, that is
\* duration_secs >= 0, whatever the records, scene entries with a missing or a
\* negative game time included.
C27_DurationNotNegative ==
    pc = "built" =>
        \A info \in InfosOf(TheManager) :
            /\ info.end_game_time_secs >= info.start_game_time_secs
            /\ duration_secs(info) >= 0

\* A scene entry at -1 is followed by one without a game time: the first
\* scene starts and ends at -1, the second starts at 0.
C27_Witness ==
    /\ pc = "built"
    /\ Len(ListOf(TheManager.scenes, "A")) = 2
    /\ LET first == ListOf(TheManager.scenes, "A")[1]
           second == ListOf(TheManager.scenes, "A")[2]
       IN  /\ first.start_game_time_secs = -1 /\ first.end_game_time_secs = -1
           /\ second.start_game_time_secs = 0
           /\ \E k \in DOMAIN TheManager.records :
                 is_scene_entry(TheManager.records[k]) /\ ~TheManager.records[k].hasTime

\* The records a manager returns for one scene instance or another.
InSomeScene(m, r) ==
    \E k \in DOMAIN m.scenes.keys :
        \E instance \in 0..(get_scene_count(m, m.scenes.keys[k]) - 1) :
            LET got == get_scene_records(m, m.scenes.keys[k], instance)
            IN  got.kind = "ok" /\ \E i \in DOMAIN got.records : got.records[i] = r

\* C28: in a session whose scene markers all carry a non-empty name, every
\* record whose game time is >= the first marker's is returned by
\* get_scene_records for at least one scene instance: the scenes leave no gap
\* and the last one takes every record after it.
C28_ScenesLeaveNoGap ==
    pc = "built" =>
        LET all == TheManager.records
            markers == SelectSeq(all, IsMarker)
        IN  (markers # <<>> /\ \A i \in DOMAIN markers : Accepted(markers[i])) =>
                \A j \in DOMAIN all :
                    GetTime(all[j], 0) >= GetTime(markers[1], 0) => InSomeScene(TheManager, all[j])

\* The metadata every session reports is what it was before the step.
MetadataKept ==
    \A s \in DOMAIN sessions :
        ReportedMetadata(sessions', dicts', s) = ReportedMetadata(sessions, dicts, s)

\* C29: a session's metadata is not shared with anything a caller can change:
\* writing to the mapping get_stats() returns under 'metadata', or to the
\* mapping that was passed to the constructor, changes the metadata reported
\* neither by that session, nor by the sessions derived from it through filter
\* or scene, nor by the session it was derived from.
C29_MetadataNotAliased ==
    [][(MappingMutated("get_stats") \/ MappingMutated("argument")) => MetadataKept]_vars
====
